---- MODULE Spec2Model ----
(***************************************************************************)
(* Model of the plenzo deal finder.                                        *)
(*                                                                         *)
(*   Spec    the Flask route api_search (app.py) calling the Selenium      *)
(*           scraper plenzo_search (plenzo_nogui.py).                      *)
(*   SpecUI  the React prototype: handleSearch and fetchWithBackoff        *)
(*           (__main__.py, which holds JSX source).                        *)
(***************************************************************************)
EXTENDS Integers, Sequences, FiniteSets, TLC

VARIABLES
    \* ---- server side: app.py, plenzo_nogui.py ----
    pc,          \* position of the request being served
    rawq,        \* the q parameter as sent (NoParam when absent)
    query,       \* api_search's local `query` (stripped)
    searchCalls, \* number of times the request invoked plenzo_search
    driver,      \* "none" | "open" | "closed": the Chrome session
    quitCalls,   \* number of driver.quit() calls of this plenzo_search run
    page,        \* the resultRow containers of the page the session holds, document order
    nav,         \* how the try body ended: "none" | "get_error" | "timeout" | "extracted"
    results,     \* plenzo_search's local `results`
    raised,      \* exception that escaped plenzo_search: "none" | "launch" | "quit"
    response,    \* the HTTP response of api_search (NoResponse until sent)
    \* ---- UI side: __main__.py ----
    upc,         \* position of handleSearch / fetchWithBackoff
    retries,     \* fetchWithBackoff's `retries` parameter of the current frame
    calls,       \* network calls issued by the current handleSearch run
    inflight,    \* network calls issued and not yet settled
    delays,      \* the setTimeout delays waited so far, in ms, in order
    attempts,    \* what each settled network call produced, in order
    fetchResult, \* what fetchWithBackoff handed to handleSearch
    deal,        \* React state `deal`
    error,       \* React state `error`
    loading      \* React state `loading`

srvVars == <<pc, rawq, query, searchCalls, driver, quitCalls, page, nav, results,
             raised, response>>
uiVars == <<upc, retries, calls, inflight, delays, attempts, fetchResult, deal,
            error, loading>>
vars == <<srvVars, uiVars>>

\* Python None / JavaScript null and undefined.
NULL == "NULL"

------------------------------------------------------------------------------
\* Bounds of the model.

\* Longest q parameter, in characters.
MaxQLen == 2
\* Largest number of resultRow containers on a page.
MaxRows == 5

------------------------------------------------------------------------------
\* app.py: request.args.get("q", "").strip()

\* A request without a q parameter.
NoParam == [present |-> FALSE, value |-> <<>>]
Whitespace == {" ", "\t"}
Chars == Whitespace \cup {"a"}

RECURSIVE SeqsUpTo(_, _)
SeqsUpTo(S, n) ==
    IF n = 0 THEN {<<>>}
    ELSE LET shorter == SeqsUpTo(S, n - 1)
         IN shorter \cup {Append(s, c) : s \in {t \in shorter : Len(t) = n - 1}, c \in S}

RawQueries == {NoParam} \cup {[present |-> TRUE, value |-> s] : s \in SeqsUpTo(Chars, MaxQLen)}

RECURSIVE LStrip(_)
LStrip(s) == IF s # <<>> /\ Head(s) \in Whitespace THEN LStrip(Tail(s)) ELSE s

RECURSIVE RStrip(_)
RStrip(s) ==
    IF s # <<>> /\ s[Len(s)] \in Whitespace THEN RStrip(SubSeq(s, 1, Len(s) - 1)) ELSE s

\* Mutant of Strip: the .strip() call left out.
StripOmitted(s) == s

\* str.strip(): leading and trailing whitespace removed, inner whitespace kept.
Strip(s) == RStrip(LStrip(s))

\* request.args.get("q", ""): the default stands for a missing parameter.
ArgsGet(q) == IF q.present THEN q.value ELSE <<>>

------------------------------------------------------------------------------
\* plenzo_nogui.py: the page and the per-row extraction.

\* deal_rows = driver.find_elements(...)[:3]
TopN == 3

\* A resultRow container, by the look-ups the loop body makes on it.
\*   dealImg       row.find_element(By.CLASS_NAME, "dealImg") finds an element
\*   img           img_container.find_element(By.TAG_NAME, "img") finds one
\*   dataOriginal  img_element.get_attribute("data-original")
\*   src           img_element.get_attribute("src")
\*   dealWrapper   row.find_element(By.CLASS_NAME, "dealWrapper") finds one
\*   a             wrapper.find_element(By.TAG_NAME, "a") finds one
\*   href          link_element.get_attribute("href")
Shape(di, im, d, s, w, a) ==
    [dealImg |-> di, img |-> im, dataOriginal |-> d, src |-> s,
     dealWrapper |-> w, a |-> a, href |-> IF a THEN "href" ELSE NULL]

\* Three well-formed shapes (lazy image, plain image, no image attribute) and one
\* shape per look-up that can fail.
RowShapes ==
    { Shape(TRUE, TRUE, "lazy", "src", TRUE, TRUE),
      Shape(TRUE, TRUE, NULL, "src", TRUE, TRUE),
      Shape(TRUE, TRUE, NULL, NULL, TRUE, TRUE),
      Shape(FALSE, FALSE, NULL, NULL, TRUE, TRUE),
      Shape(TRUE, FALSE, NULL, NULL, TRUE, TRUE),
      Shape(TRUE, TRUE, "lazy", "src", FALSE, FALSE),
      Shape(TRUE, TRUE, "lazy", "src", TRUE, FALSE) }

\* The anchor text of the i-th container: its position on the page, padded with
\* whitespace as rendered text may be.
RowText(i) == <<" ", ToString(i), " ">>

Min(a, b) == IF a < b THEN a ELSE b

\* Containers past the first TopN are never handed to the loop (the [:3] slice),
\* so for them one well-formed and one malformed shape stand for the rest.
TailShapes ==
    { Shape(TRUE, TRUE, "lazy", "src", TRUE, TRUE),
      Shape(FALSE, FALSE, NULL, NULL, TRUE, TRUE) }

\* The pages the site can serve: 0..MaxRows containers, the first TopN of any
\* shape, the i-th one carrying the text RowText(i).
Pages ==
    UNION { { [i \in 1..n |-> [shape |-> IF i <= TopN THEN h[i] ELSE t[i - TopN],
                               text |-> RowText(i)]] :
              h \in [1..Min(n, TopN) -> RowShapes],
              t \in [1..(IF n > TopN THEN n - TopN ELSE 0) -> TailShapes] } :
            n \in 0..MaxRows }

\* driver.find_elements(By.CLASS_NAME, "resultRow")[:3]
DealRows(p) == SubSeq(p, 1, Min(TopN, Len(p)))

\* `if not image_url`
Falsy(v) == v = NULL \/ v = ""

Skipped == [skipped |-> TRUE]

\* Mutant of RowDeal: a missing img tag is tolerated and yields an entry with a
\* null image instead of dropping the row.
RowDealNullImage(index, row) ==
    IF ~row.shape.dealImg THEN Skipped
    ELSE LET lazy == IF row.shape.img THEN row.shape.dataOriginal ELSE NULL
             image_url == IF Falsy(lazy) THEN row.shape.src ELSE lazy
         IN IF ~row.shape.dealWrapper THEN Skipped
            ELSE IF ~row.shape.a THEN Skipped
            ELSE [rank |-> index + 1,
                  title |-> Strip(row.text),
                  link |-> row.shape.href,
                  imageUrl |-> image_url]

\* The body of the for loop for one row: the deal object appended, or Skipped
\* when a find_element raised and the except clause ran `continue`.
RowDeal(index, row) ==
    IF ~row.shape.dealImg THEN Skipped
    ELSE IF ~row.shape.img THEN Skipped
    ELSE LET lazy == row.shape.dataOriginal
             image_url == IF Falsy(lazy) THEN row.shape.src ELSE lazy
         IN IF ~row.shape.dealWrapper THEN Skipped
            ELSE IF ~row.shape.a THEN Skipped
            ELSE [rank |-> index + 1,
                  title |-> Strip(row.text),
                  link |-> row.shape.href,
                  imageUrl |-> image_url]

\* for index, row in enumerate(deal_rows): ... ; index is 0-based.
RECURSIVE ExtractLoop(_, _, _)
ExtractLoop(rows, index, acc) ==
    IF index >= Len(rows) THEN acc
    ELSE LET d == RowDeal(index, rows[index + 1])
         IN ExtractLoop(rows, index + 1, IF d = Skipped THEN acc ELSE Append(acc, d))

------------------------------------------------------------------------------
\* Server state machine.

NoResponse == [status |-> 0]
MissingQ == [error |-> "Missing 'q' query parameter"]
SearchFailed == [error |-> "Search failed on the server."]

SrvInit ==
    /\ pc = "idle"
    /\ rawq = NoParam
    /\ query = <<>>
    /\ searchCalls = 0
    /\ driver = "none"
    /\ quitCalls = 0
    /\ page = <<>>
    /\ nav = "none"
    /\ results = <<>>
    /\ raised = "none"
    /\ response = NoResponse

\* api_search up to the call of plenzo_search: strip q, answer 400 when empty.
ApiSearchEntry(q) ==
    /\ pc = "idle"
    /\ rawq' = q
    /\ query' = Strip(ArgsGet(q))
    /\ IF query' = <<>>
       THEN /\ response' = [status |-> 400, body |-> MissingQ]
            /\ pc' = "responded"
            /\ UNCHANGED searchCalls
       ELSE /\ pc' = "launch"
            /\ searchCalls' = searchCalls + 1
            /\ UNCHANGED response
    /\ UNCHANGED <<driver, quitCalls, page, nav, results, raised>>
    /\ UNCHANGED uiVars

\* driver = webdriver.Chrome(...); results = []. The constructor is outside the
\* try block: when it raises, plenzo_search raises and no session exists.
Launch(ok) ==
    /\ pc = "launch"
    /\ IF ok
       THEN /\ driver' = "open"
            /\ results' = <<>>
            /\ pc' = "try"
            /\ UNCHANGED raised
       ELSE /\ raised' = "launch"
            /\ pc' = "api_return"
            /\ UNCHANGED <<driver, results>>
    /\ UNCHANGED <<rawq, query, searchCalls, quitCalls, page, nav, response>>
    /\ UNCHANGED uiVars

\* Mutant of TryBody: no except clause around navigation and wait, so their
\* failure leaves the try statement as a raised exception.
TryBodyNoExcept(getOk, p) ==
    /\ pc = "try"
    /\ IF ~getOk
       THEN /\ nav' = "get_error"
            /\ raised' = "nav"
            /\ UNCHANGED <<page, results>>
       ELSE /\ page' = p
            /\ IF Len(p) = 0
               THEN /\ nav' = "timeout"
                    /\ raised' = "nav"
                    /\ UNCHANGED results
               ELSE /\ nav' = "extracted"
                    /\ results' = ExtractLoop(DealRows(p), 0, results)
                    /\ UNCHANGED raised
    /\ pc' = "finally"
    /\ UNCHANGED <<rawq, query, searchCalls, driver, quitCalls, response>>
    /\ UNCHANGED uiVars

\* The try block with its `except Exception`: driver.get, the wait for a
\* resultRow (timeout 0: one poll, TimeoutException when none is present),
\* find_elements()[:3] and the extraction loop.
TryBody(getOk, p) ==
    /\ pc = "try"
    /\ IF ~getOk
       THEN /\ nav' = "get_error"
            /\ UNCHANGED <<page, results>>
       ELSE /\ page' = p
            /\ IF Len(p) = 0
               THEN /\ nav' = "timeout"
                    /\ UNCHANGED results
               ELSE /\ nav' = "extracted"
                    /\ results' = ExtractLoop(DealRows(p), 0, results)
    /\ pc' = "finally"
    /\ UNCHANGED <<rawq, query, searchCalls, driver, quitCalls, raised, response>>
    /\ UNCHANGED uiVars

\* The try block under whatever the site does: navigation fails, or it serves
\* one of the pages.
Scrape == pc = "try" /\ \E getOk \in BOOLEAN, p \in Pages : TryBody(getOk, p)

\* Mutant of Quit: driver.quit() as the last statement of the try body instead
\* of a finally clause, so it is skipped when navigation or the wait failed.
QuitAtEndOfTry(ok) ==
    /\ pc = "finally"
    /\ page' = <<>>
    /\ IF nav # "extracted"
       THEN UNCHANGED <<quitCalls, driver, raised>>
       ELSE /\ quitCalls' = quitCalls + 1
            /\ IF ok
               THEN /\ driver' = "closed"
                    /\ UNCHANGED raised
               ELSE /\ driver' \in {"open", "closed"}
                    /\ raised' = "quit"
    /\ pc' = "api_return"
    /\ UNCHANGED <<rawq, query, searchCalls, nav, results, response>>
    /\ UNCHANGED uiVars

\* finally: driver.quit(); then return results. quit() can raise (the browser
\* died, the driver process is gone); the session is then in either state. The
\* row handles of the try block are dead from here on.
Quit(ok) ==
    /\ pc = "finally"
    /\ quitCalls' = quitCalls + 1
    /\ page' = <<>>
    /\ IF ok
       THEN /\ driver' = "closed"
            /\ UNCHANGED raised
       ELSE /\ driver' \in {"open", "closed"}
            /\ raised' = "quit"
    /\ pc' = "api_return"
    /\ UNCHANGED <<rawq, query, searchCalls, nav, results, response>>
    /\ UNCHANGED uiVars

\* Mutant of ApiRespond: the except clause answers with the exception's text.
ApiRespondLeaks ==
    /\ pc = "api_return"
    /\ response' = IF raised = "none"
                   THEN [status |-> 200, body |-> [query |-> query, results |-> results]]
                   ELSE [status |-> 500, body |-> [error |-> raised]]
    /\ pc' = "responded"
    /\ UNCHANGED <<rawq, query, searchCalls, driver, quitCalls, page, nav, results, raised>>
    /\ UNCHANGED uiVars

\* api_search after plenzo_search: jsonify on return, the except clause on raise.
ApiRespond ==
    /\ pc = "api_return"
    /\ response' = IF raised = "none"
                   THEN [status |-> 200, body |-> [query |-> query, results |-> results]]
                   ELSE [status |-> 500, body |-> SearchFailed]
    /\ pc' = "responded"
    /\ UNCHANGED <<rawq, query, searchCalls, driver, quitCalls, page, nav, results, raised>>
    /\ UNCHANGED uiVars

\* The next request: every request starts from fresh locals.
NextRequest ==
    /\ pc = "responded"
    /\ pc' = "idle"
    /\ rawq' = NoParam
    /\ query' = <<>>
    /\ searchCalls' = 0
    /\ driver' = "none"
    /\ quitCalls' = 0
    /\ page' = <<>>
    /\ nav' = "none"
    /\ results' = <<>>
    /\ raised' = "none"
    /\ response' = NoResponse
    /\ UNCHANGED uiVars

------------------------------------------------------------------------------
\* __main__.py: fetchWithBackoff and handleSearch.

\* const fetchWithBackoff = async (url, options, retries = 3)
DefaultRetries == 3
\* Math.pow(2, 3 - retries) * 1000: the 3 is written out in the expression.
BackoffBase == 3

\* What one fetch() call can produce: a rejection (network failure) carrying an
\* error message, or a response with a status and a body. jsonOk says whether
\* response.json() resolves; text is result.candidates?.[0]?.content?.parts?.[0]?.text.
Thrown(m) ==
    [kind |-> "throw", status |-> 0, ok |-> FALSE, jsonOk |-> FALSE, text |-> NULL,
     message |-> m]
Resp(st, j, t) ==
    [kind |-> "response", status |-> st, ok |-> st \in 200..299, jsonOk |-> j,
     text |-> t, message |-> ""]

\* Model texts: absent, empty, not JSON, the JSON literal null, a JSON object.
ModelTexts == {NULL, "", "Here is the deal", "null", "{deal}"}

NetOutcomes ==
    {Thrown("Failed to fetch"), Thrown("")}
    \cup {Resp(429, FALSE, NULL), Resp(500, FALSE, NULL), Resp(200, FALSE, NULL)}
    \cup {Resp(200, TRUE, t) : t \in ModelTexts}

\* JSON.parse on the model texts: a value, or a SyntaxError.
JSONParse(t) ==
    CASE t = "null" -> [ok |-> TRUE, value |-> NULL, message |-> ""]
      [] t = "{deal}" -> [ok |-> TRUE, value |-> "deal", message |-> ""]
      [] OTHER -> [ok |-> FALSE, value |-> NULL, message |-> "Unexpected token"]

\* Mutant of BackoffDelay: the exponent is the number of retries left.
BackoffDelayByRetriesLeft(r) == (2 ^ r) * 1000

\* const delay = Math.pow(2, 3 - retries) * 1000
BackoffDelay(r) == (2 ^ (BackoffBase - r)) * 1000

\* Mutant of ShouldRetry: every non-ok response is retried, not only a 429.
ShouldRetryAnyError(o, r) ==
    \/ o.kind = "response" /\ ~o.ok /\ r > 0
    \/ o.kind = "throw" /\ r > 0

\* The two retry conditions of fetchWithBackoff: a 429 response with retries
\* left (try branch), any rejection with retries left (catch branch).
ShouldRetry(o, r) ==
    \/ o.kind = "response" /\ o.status = 429 /\ r > 0
    \/ o.kind = "throw" /\ r > 0

\* `API Error: ${err.message}`
ApiError(m) ==
    CASE m = "Failed to fetch" -> "API Error: Failed to fetch"
      [] m = "Unexpected token" -> "API Error: Unexpected token"
      [] m = "API returned error status 429" -> "API Error: API returned error status 429"
      [] m = "API returned error status 500" -> "API Error: API returned error status 500"

\* `API returned error status ${response.status}: ...`
StatusMessage(st) ==
    IF st = 429 THEN "API returned error status 429" ELSE "API returned error status 500"

GenericError == "Failed to connect to the Gemini API. Check your network or try again."
EmptyError ==
    "Could not parse the deal information from the model response. Response was empty."

\* The catch clause of handleSearch: deal stays as cleared on entry.
Catch(m) == [deal |-> NULL, error |-> IF m # "" THEN ApiError(m) ELSE GenericError]

\* handleSearch from the settled fetchWithBackoff promise to the end of the try /
\* catch: the values of deal and error it leaves.
HandleOutcome(r) ==
    IF r.kind = "throw" THEN Catch(r.message)
    ELSE IF ~r.ok THEN Catch(StatusMessage(r.status))
    ELSE IF ~r.jsonOk THEN Catch("Unexpected token")
    ELSE IF Falsy(r.text) THEN [deal |-> NULL, error |-> EmptyError]
    ELSE LET parsed == JSONParse(r.text)
         IN IF parsed.ok THEN [deal |-> parsed.value, error |-> NULL]
            ELSE Catch(parsed.message)

UIInit ==
    /\ upc = "idle"
    /\ retries = 0
    /\ calls = 0
    /\ inflight = 0
    /\ delays = <<>>
    /\ attempts = <<>>
    /\ fetchResult = Thrown("")
    /\ deal = NULL
    /\ error = NULL
    /\ loading = FALSE

\* handleSearch up to the call of fetchWithBackoff. The form is disabled while
\* loading, so a run starts only when none is in progress.
HandleSearchStart ==
    /\ upc \in {"idle", "done"}
    /\ loading' = TRUE
    /\ error' = NULL
    /\ deal' = NULL
    /\ retries' = DefaultRetries
    /\ calls' = 0
    /\ delays' = <<>>
    /\ attempts' = <<>>
    /\ upc' = "call"
    /\ UNCHANGED <<inflight, fetchResult>>
    /\ UNCHANGED srvVars

\* await fetch(url, options): the call goes out.
IssueFetch ==
    /\ upc = "call"
    /\ calls' = calls + 1
    /\ inflight' = inflight + 1
    /\ upc' = "await"
    /\ UNCHANGED <<retries, delays, attempts, fetchResult, deal, error, loading>>
    /\ UNCHANGED srvVars

\* The call settles with outcome o: fetchWithBackoff schedules a retry, or
\* returns the response / rethrows the error to handleSearch.
Settle(o) ==
    /\ upc = "await"
    /\ inflight' = inflight - 1
    /\ attempts' = Append(attempts, o)
    /\ IF ShouldRetry(o, retries)
       THEN /\ upc' = "sleep"
            /\ UNCHANGED fetchResult
       ELSE /\ upc' = "handle"
            /\ fetchResult' = o
    /\ UNCHANGED <<retries, calls, delays, deal, error, loading>>
    /\ UNCHANGED srvVars

\* await new Promise(resolve => setTimeout(resolve, delay)), then the recursive
\* call fetchWithBackoff(url, options, retries - 1).
TimerFires ==
    /\ upc = "sleep"
    /\ delays' = Append(delays, BackoffDelay(retries))
    /\ retries' = retries - 1
    /\ upc' = "call"
    /\ UNCHANGED <<calls, inflight, attempts, fetchResult, deal, error, loading>>
    /\ UNCHANGED srvVars

\* The rest of handleSearch: try / catch / finally { setLoading(false) }.
HandleResponse ==
    /\ upc = "handle"
    /\ deal' = HandleOutcome(fetchResult).deal
    /\ error' = HandleOutcome(fetchResult).error
    /\ loading' = FALSE
    /\ upc' = "done"
    /\ UNCHANGED <<retries, calls, inflight, delays, attempts, fetchResult>>
    /\ UNCHANGED srvVars

Init == SrvInit /\ UIInit

Next ==
    \/ \E q \in RawQueries : ApiSearchEntry(q)
    \/ \E ok \in BOOLEAN : Launch(ok)
    \/ Scrape
    \/ \E ok \in BOOLEAN : Quit(ok)
    \/ ApiRespond
    \/ NextRequest

Spec == Init /\ [][Next]_vars

NextUI ==
    \/ HandleSearchStart
    \/ IssueFetch
    \/ \E o \in NetOutcomes : Settle(o)
    \/ TimerFires
    \/ HandleResponse

\* The event loop runs every ready continuation: an issued fetch settles (the
\* network stack resolves or rejects it), a timer fires, a resolved promise is
\* continued. Starting a new search is up to the user.
SpecUI ==
    /\ Init
    /\ [][NextUI]_vars
    /\ WF_vars(IssueFetch)
    /\ WF_vars(\E o \in NetOutcomes : Settle(o))
    /\ WF_vars(TimerFires)
    /\ WF_vars(HandleResponse)

------------------------------------------------------------------------------
\* Properties of the scraper and the route, checked under Spec.

\* A container on which all four look-ups of the loop body succeed.
WellFormed(row) ==
    row.shape.dealImg /\ row.shape.img /\ row.shape.dealWrapper /\ row.shape.a

\* The title a deal taken from the i-th container carries.
TitleOf(i) == <<ToString(i)>>

\* The try body ran the extraction loop and the session still holds the page.
Extracted == pc = "finally" /\ nav = "extracted"

\* C1: the returned list has at most 3 entries and its rank values are the
\* dense sequence 1..k, whatever rows were skipped.
C1_DenseRanks ==
    /\ Len(results) <= 3
    /\ \A k \in 1..Len(results) : results[k].rank = k

\* C2: on a page of exactly 5 containers with containers 2 and 4 malformed, the
\* result is three deals ranked 1, 2, 3 taken from containers 1, 3 and 5.
C2_FiveRowScenario ==
    ( /\ Extracted
      /\ Len(page) = 5
      /\ \A i \in 1..5 : WellFormed(page[i]) <=> i \in {1, 3, 5} )
    => /\ Len(results) = 3
       /\ \A k \in 1..3 : results[k].rank = k
       /\ results[1].title = TitleOf(1)
       /\ results[2].title = TitleOf(3)
       /\ results[3].title = TitleOf(5)

\* C3: once the session exists, driver.quit() is called exactly once before
\* plenzo_search returns or raises, on every path; never before the try body
\* ended, never when no session was created; a quit that succeeded leaves the
\* session closed.
C3_QuitExactlyOnce ==
    /\ quitCalls <= 1
    /\ pc \in {"try", "finally"} => driver = "open" /\ quitCalls = 0
    /\ pc \in {"api_return", "responded"} /\ driver # "none" => quitCalls = 1
    /\ driver = "none" => quitCalls = 0
    /\ quitCalls = 1 /\ raised = "none" => driver = "closed"

C3_Witness ==
    /\ pc = "api_return"
    /\ nav = "get_error"
    /\ quitCalls = 1
    /\ driver = "closed"

C5_MalformedRowsDropped ==
    Extracted =>
        /\ \A k \in 1..Len(results) :
              /\ DOMAIN results[k] = {"rank", "title", "link", "imageUrl"}
              /\ \E i \in 1..Len(page) :
                    /\ results[k].title = TitleOf(i)
                    /\ WellFormed(page[i])
                    /\ results[k].link = page[i].shape.href
                    /\ results[k].imageUrl = NULL
                       => page[i].shape.dataOriginal = NULL /\ page[i].shape.src = NULL
        /\ \A i \in 1..Len(page) :
              i <= 3 /\ WellFormed(page[i])
              => \E k \in 1..Len(results) : results[k].title = TitleOf(i)
        /\ \A k1, k2 \in 1..Len(results) :
              k1 < k2 =>
                \E i1, i2 \in 1..Len(page) :
                    /\ i1 < i2
                    /\ results[k1].title = TitleOf(i1)
                    /\ results[k2].title = TitleOf(i2)

C5_Witness ==
    /\ Extracted
    /\ Len(page) >= 3
    /\ WellFormed(page[1])
    /\ ~page[2].shape.img
    /\ WellFormed(page[3])
    /\ Len(results) = 2

\* The q parameter is missing, empty or whitespace only.
BlankQ(q) == ~q.present \/ \A i \in 1..Len(q.value) : q.value[i] \in {" ", "\t"}

\* C6: a request whose q is missing, empty or whitespace only is answered 400
\* with the documented body, plenzo_search is not invoked and no session opens.
C6_BlankQueryIs400 ==
    pc # "idle" /\ BlankQ(rawq)
    => /\ pc = "responded"
       /\ response = [status |-> 400, body |-> [error |-> "Missing 'q' query parameter"]]
       /\ searchCalls = 0
       /\ driver = "none"

C6_Witness ==
    /\ pc = "responded"
    /\ rawq.present
    /\ Len(rawq.value) = 2
    /\ BlankQ(rawq)
    /\ response.status = 400

\* C7: for a q with content, the answer is 200 {query, results} carrying what
\* plenzo_search returned when it returned, and 500 with the fixed body when it
\* raised; the body never carries anything of the exception.
C7_ResponseFollowsSearch ==
    pc = "responded" /\ ~BlankQ(rawq)
    => /\ searchCalls = 1
       /\ raised = "none"
          => response = [status |-> 200, body |-> [query |-> query, results |-> results]]
       /\ raised # "none"
          => response = [status |-> 500, body |-> [error |-> "Search failed on the server."]]

C7_Witness ==
    /\ pc = "responded"
    /\ raised = "quit"
    /\ Len(results) = 3
    /\ response.status = 500

------------------------------------------------------------------------------
\* Properties of the UI, checked under SpecUI.

\* The delays waited so far are the first ones of 1s, 2s, 4s; at most 4 calls
\* were issued, never two at once, the n-th after exactly n - 1 delays.
BackoffSchedule ==
    /\ Len(delays) <= 3
    /\ \A i \in 1..Len(delays) : delays[i] = <<1000, 2000, 4000>>[i]
    /\ calls <= 4
    /\ inflight <= 1
    /\ upc \in {"await", "sleep", "handle"} => calls = Len(attempts) + inflight
    /\ upc \in {"await", "handle"} => calls = Len(delays) + 1
    /\ upc = "sleep" => calls = Len(delays) + 1 /\ inflight = 0

\* C8: with the default retry budget the waits before the 1st, 2nd and 3rd retry
\* are 1s, 2s and 4s for any mix of 429 responses and network failures, at most
\* 4 calls are issued, one after another, and fetchWithBackoff always ends.
C8_BackoffScheduleAndTermination ==
    /\ []BackoffSchedule
    /\ (upc = "call") ~> (upc = "handle")

C8_Witness ==
    /\ upc = "handle"
    /\ calls = 4
    /\ delays = <<1000, 2000, 4000>>
    /\ \E i \in 1..3 : attempts[i].kind = "throw"
    /\ \E i \in 1..3 : attempts[i].kind = "response" /\ attempts[i].status = 429

\* C9: a response whose status is not 429 ends fetchWithBackoff on the attempt
\* that received it, with no retry and no delay after it; with no retries left
\* a 429 response is returned as it is and a network failure is thrown.
C9_ExhaustedAndNon429 ==
    /\ \A i \in 1..Len(attempts) :
          attempts[i].kind = "response" /\ attempts[i].status # 429
          => /\ i = Len(attempts)
             /\ upc \in {"handle", "done"}
             /\ fetchResult = attempts[i]
             /\ Len(delays) = i - 1
             /\ calls = i
    /\ Len(attempts) = 4 /\ upc # "await"
       => /\ upc \in {"handle", "done"}
          /\ fetchResult = attempts[4]
          /\ Len(delays) = 3

C9_Witness ==
    /\ upc = "handle"
    /\ Len(attempts) = 4
    /\ attempts[4].status = 429
    /\ fetchResult.kind = "response"
    /\ fetchResult.status = 429

\* C10: when the first call fails and the retry succeeds with parsable model
\* text, handleSearch ends with the deal set, no error and loading false after
\* one delay; every run ends with loading false and exactly one of deal and
\* error set.
C10_ExactlyOneOfDealAndError ==
    upc = "done"
    => /\ loading = FALSE
       /\ (deal # NULL) # (error # NULL)
       /\ ( /\ Len(attempts) = 2
            /\ attempts[1].kind = "throw"
            /\ attempts[2].ok /\ attempts[2].jsonOk
            /\ ~Falsy(attempts[2].text)
            /\ JSONParse(attempts[2].text).ok )
          => deal # NULL /\ error = NULL /\ delays = <<1000>>

====
